---------------------------- MODULE Spec2Model ----------------------------
(***************************************************************************)
(* A model of the NanoCBOR decoder (src/src/decoder.c).                    *)
(*                                                                         *)
(* The buffer is a sequence of bytes; a cursor (nanocbor_value_t) is a     *)
(* record [cur, end, remaining, flags] with cur and end byte offsets into  *)
(* the buffer (buf + cur is the C pointer).  uint32_t / uint64_t / size_t  *)
(* values are kept at their width as four 16-bit limbs, most significant   *)
(* first, so that 2^32 - 1 and the wrap of remaining-- are representable.  *)
(* The host is taken to be little-endian with a 64-bit size_t, which is    *)
(* what the pointer casts in _get_str and _skip_simple assume.             *)
(***************************************************************************)
EXTENDS Integers, Sequences, FiniteSets, TLC

VARIABLES buf, stack, last, calls, oob

vars == <<buf, stack, last, calls, oob>>

(***************************************************************************)
(* Constants of nanocbor/nanocbor.h and nanocbor/config.h.                 *)
(***************************************************************************)
NANOCBOR_OK == 0
NANOCBOR_ERR_OVERFLOW == -1
NANOCBOR_ERR_INVALID_TYPE == -2
NANOCBOR_ERR_END == -3
NANOCBOR_ERR_RECURSION == -4
NANOCBOR_NOT_FOUND == -5

NANOCBOR_TYPE_UINT == 0
NANOCBOR_TYPE_NINT == 1
NANOCBOR_TYPE_BSTR == 2
NANOCBOR_TYPE_TSTR == 3
NANOCBOR_TYPE_ARR == 4
NANOCBOR_TYPE_MAP == 5
NANOCBOR_TYPE_TAG == 6
NANOCBOR_TYPE_FLOAT == 7

NANOCBOR_TYPE_OFFSET == 5
NANOCBOR_VALUE_MASK == 31
NANOCBOR_MASK_FLOAT == 224

NANOCBOR_SIZE_BYTE == 24
NANOCBOR_SIZE_SHORT == 25
NANOCBOR_SIZE_WORD == 26
NANOCBOR_SIZE_LONG == 27
NANOCBOR_SIZE_SIZET == 27
NANOCBOR_SIZE_INDEFINITE == 31

NANOCBOR_SIMPLE_FALSE == 20
NANOCBOR_SIMPLE_TRUE == 21
NANOCBOR_SIMPLE_NULL == 22

NANOCBOR_TAG_DEC_FRAC == 4

NANOCBOR_DECODER_FLAG_CONTAINER == 1
NANOCBOR_DECODER_FLAG_INDEFINITE == 2

NANOCBOR_RECURSION_MAX == 10

(***************************************************************************)
(* Fixed-width unsigned values: <<l3, l2, l1, l0>>, 16 bits each.          *)
(***************************************************************************)
Limb == 65536

W(n) == <<0, 0, 0, n>>

WZero == W(0)

UINT32_MAX == <<0, 0, 65535, 65535>>

INT8_MAX == W(127)

INT16_MAX == W(32767)

INT32_MAX == <<0, 0, 32767, 65535>>

\* a < b, unsigned
WLt(a, b) ==
    \E i \in 1..4 : a[i] < b[i] /\ \A j \in 1..(i - 1) : a[j] = b[j]

\* the big-endian value of 1, 2, 4 or 8 bytes
WFromBytes(bs) ==
    LET p == [i \in 1..8 |-> IF i <= 8 - Len(bs) THEN 0 ELSE bs[i - (8 - Len(bs))]]
    IN  <<p[1] * 256 + p[2], p[3] * 256 + p[4], p[5] * 256 + p[6], p[7] * 256 + p[8]>>

\* uint32_t x; x--
U32Dec(w) ==
    IF w[4] > 0 THEN <<0, 0, w[3], w[4] - 1>>
    ELSE IF w[3] > 0 THEN <<0, 0, w[3] - 1, Limb - 1>>
    ELSE UINT32_MAX

\* uint32_t x; x * 2
U32Double(w) ==
    <<0, 0, (2 * w[3] + (2 * w[4]) \div Limb) % Limb, (2 * w[4]) % Limb>>

(***************************************************************************)
(* The buffer.  Mem(i) is the byte a read of buf[i] yields: inside the     *)
(* buffer its content, past its end whatever the memory there holds (oob). *)
(***************************************************************************)
Mem(i) == IF i < Len(buf) THEN buf[i + 1] ELSE oob

nanocbor_decoder_init(len, r0) ==
    [cur |-> 0, end |-> len, remaining |-> r0, flags |-> 0]

nanocbor_in_container(c) == c.flags % 2 = 1

nanocbor_container_indefinite(c) ==
    c.flags = NANOCBOR_DECODER_FLAG_INDEFINITE + NANOCBOR_DECODER_FLAG_CONTAINER

\* _advance as it would be if it counted the item and left cur where it is
_advance_stuck(c, res) == [c EXCEPT !.remaining = U32Dec(c.remaining)]

_advance(c, res) ==
    [c EXCEPT !.cur = c.cur + res, !.remaining = U32Dec(c.remaining)]

_over_end(c) == c.cur >= c.end

_get_type(c) == (Mem(c.cur) \div 32) * 32

nanocbor_at_end(c) ==
    \/ _over_end(c)
    \/ /\ nanocbor_container_indefinite(c)
       /\ Mem(c.cur) = NANOCBOR_TYPE_FLOAT * 32 + NANOCBOR_VALUE_MASK
    \/ /\ ~nanocbor_container_indefinite(c)
       /\ nanocbor_in_container(c)
       /\ c.remaining = WZero

nanocbor_get_type(c) ==
    IF nanocbor_at_end(c) THEN NANOCBOR_ERR_END ELSE _get_type(c) \div 32

\* *cvalue->cur & NANOCBOR_VALUE_MASK
_bytelen(c) == Mem(c.cur) % (NANOCBOR_VALUE_MASK + 1)

\* _get_uint64 after its call of nanocbor_get_type: the int result and
\* *value (v0 when *value is not written)
_get_uint64_typed(c, v0, max, type, ctype) ==
    IF ctype < 0 THEN [res |-> ctype, value |-> v0]
    ELSE IF type # ctype THEN [res |-> NANOCBOR_ERR_INVALID_TYPE, value |-> v0]
    ELSE IF _bytelen(c) < NANOCBOR_SIZE_BYTE
    THEN [res |-> 1, value |-> W(_bytelen(c))]
    ELSE IF _bytelen(c) > max
    THEN [res |-> NANOCBOR_ERR_OVERFLOW, value |-> v0]
    ELSE LET bytes == 2 ^ (_bytelen(c) - NANOCBOR_SIZE_BYTE) IN
         IF c.cur + bytes >= c.end
         THEN [res |-> NANOCBOR_ERR_END, value |-> v0]
         ELSE [res |-> 1 + bytes,
               value |-> WFromBytes([i \in 1..bytes |-> Mem(c.cur + i)])]

_get_uint64(c, v0, max, type) ==
    _get_uint64_typed(c, v0, max, type, nanocbor_get_type(c))

\* return _advance_if(cvalue, res): the result and the cursor afterwards
_advance_if(c, res) ==
    [res |-> res, c |-> IF res > 0 THEN _advance(c, res) ELSE c]

\* _get_and_advance_uint8/16/32, r the result of _get_uint64
_get_and_advance_uint(c, r) == _advance_if(c, r.res)

nanocbor_get_uint8(c) ==
    _get_and_advance_uint(c, _get_uint64(c, WZero, NANOCBOR_SIZE_BYTE,
                                         NANOCBOR_TYPE_UINT))

nanocbor_get_uint16(c) ==
    _get_and_advance_uint(c, _get_uint64(c, WZero, NANOCBOR_SIZE_SHORT,
                                         NANOCBOR_TYPE_UINT))

nanocbor_get_uint32(c) ==
    _get_and_advance_uint(c, _get_uint64(c, WZero, NANOCBOR_SIZE_WORD,
                                         NANOCBOR_TYPE_UINT))

\* _get_and_advance_int32 after _get_uint64 returned r
_int32_bounded(c, bound, r) ==
    _advance_if(c, IF WLt(bound, r.value) THEN NANOCBOR_ERR_OVERFLOW ELSE r.res)

\* _get_and_advance_int32 after its call of nanocbor_get_type
_int32_typed(c, max, bound, type) ==
    IF type < 0 THEN [res |-> type, c |-> c]
    ELSE IF type = NANOCBOR_TYPE_NINT \/ type = NANOCBOR_TYPE_UINT
    THEN _int32_bounded(c, bound, _get_uint64(c, WZero, max, type))
    ELSE [res |-> NANOCBOR_ERR_INVALID_TYPE, c |-> c]

_get_and_advance_int32(c, max, bound) ==
    _int32_typed(c, max, bound, nanocbor_get_type(c))

nanocbor_get_int8(c) == _get_and_advance_int32(c, NANOCBOR_SIZE_BYTE, INT8_MAX)

nanocbor_get_int16(c) == _get_and_advance_int32(c, NANOCBOR_SIZE_SHORT, INT16_MAX)

nanocbor_get_int32(c) == _get_and_advance_int32(c, NANOCBOR_SIZE_WORD, INT32_MAX)

\* nanocbor_get_tag after _get_uint64 returned r: the result, the cursor
\* afterwards and *tag
_get_tag_advance(c, r) ==
    IF r.res >= 0
    THEN [res |-> NANOCBOR_OK, c |-> [c EXCEPT !.cur = c.cur + r.res], tag |-> r.value]
    ELSE [res |-> r.res, c |-> c, tag |-> r.value]

\* t0 is what *tag held before the call
nanocbor_get_tag(c, t0) ==
    _get_tag_advance(c, _get_uint64(c, t0, NANOCBOR_SIZE_WORD, NANOCBOR_TYPE_TAG))

\* _get_str after _get_uint64 returned r (r.value is *len): the result, the
\* cursor afterwards and the view (*buf, *len)
_get_str_view(c, r) ==
    IF c.end - c.cur < 0 \/ WLt(W(c.end - c.cur), r.value)
    THEN [res |-> NANOCBOR_ERR_END, c |-> c, ptr |-> 0, len |-> r.value]
    ELSE IF r.res >= 0
    THEN [res |-> NANOCBOR_OK, c |-> _advance(c, r.res + r.value[4]),
          ptr |-> c.cur + r.res, len |-> r.value]
    ELSE [res |-> r.res, c |-> c, ptr |-> 0, len |-> r.value]

_get_str(c, type) ==
    _get_str_view(c, _get_uint64(c, WZero, NANOCBOR_SIZE_SIZET, type))

nanocbor_get_bstr(c) == _get_str(c, NANOCBOR_TYPE_BSTR)

nanocbor_get_tstr(c) == _get_str(c, NANOCBOR_TYPE_TSTR)

_value_match_exact(c, val) ==
    IF _over_end(c) THEN [res |-> NANOCBOR_ERR_END, c |-> c]
    ELSE IF Mem(c.cur) = val THEN [res |-> NANOCBOR_OK, c |-> _advance(c, 1)]
    ELSE [res |-> NANOCBOR_ERR_INVALID_TYPE, c |-> c]

nanocbor_get_null(c) ==
    _value_match_exact(c, NANOCBOR_MASK_FLOAT + NANOCBOR_SIMPLE_NULL)

\* nanocbor_get_bool after the match against false returned r
_get_bool_true(c, r) ==
    IF r.res < 0
    THEN _value_match_exact(c, NANOCBOR_MASK_FLOAT + NANOCBOR_SIMPLE_TRUE)
    ELSE r

nanocbor_get_bool(c) ==
    _get_bool_true(c, _value_match_exact(c, NANOCBOR_MASK_FLOAT
                                            + NANOCBOR_SIMPLE_FALSE))

\* _enter_container after _get_uint64 returned r: the result and the
\* container; on a failure only its end and remaining are set, and no caller
\* reads the rest
_enter_definite(it, r) ==
    IF r.res < 0
    THEN [res |-> r.res,
          c |-> [cur |-> it.cur, end |-> it.end, remaining |-> r.value,
                 flags |-> 0]]
    ELSE [res |-> NANOCBOR_OK,
          c |-> [cur |-> it.cur + r.res, end |-> it.end, remaining |-> r.value,
                 flags |-> NANOCBOR_DECODER_FLAG_CONTAINER]]

_enter_container(it, type) ==
    IF ~_over_end(it) /\ Mem(it.cur) = type * 32 + NANOCBOR_SIZE_INDEFINITE
    THEN [res |-> NANOCBOR_OK,
          c |-> [cur |-> it.cur + 1, end |-> it.end, remaining |-> WZero,
                 flags |-> NANOCBOR_DECODER_FLAG_INDEFINITE
                           + NANOCBOR_DECODER_FLAG_CONTAINER]]
    ELSE _enter_definite(it, _get_uint64(it, WZero, NANOCBOR_SIZE_WORD, type))

nanocbor_enter_array(it) == _enter_container(it, NANOCBOR_TYPE_ARR)

\* nanocbor_enter_map after _enter_container returned r
_enter_map_double(r) ==
    IF r.c.remaining[3] >= 32768
    THEN [res |-> NANOCBOR_ERR_OVERFLOW, c |-> r.c]
    ELSE [res |-> r.res, c |-> [r.c EXCEPT !.remaining = U32Double(r.c.remaining)]]

nanocbor_enter_map(it) == _enter_map_double(_enter_container(it, NANOCBOR_TYPE_MAP))

\* the parent cursor afterwards
nanocbor_leave_container(it, container) ==
    [it EXCEPT
       !.remaining = IF it.remaining # WZero THEN U32Dec(it.remaining)
                     ELSE it.remaining,
       !.cur = IF nanocbor_container_indefinite(container)
               THEN container.cur + 1 ELSE container.cur]

\* nanocbor_get_decimal_frac, the mantissa: e the result of reading the
\* exponent from arr, it the cursor after the tag
_dec_frac_mantissa(it, e, m) ==
    IF e.res >= 0
    THEN [res |-> IF m.res >= 0 THEN NANOCBOR_OK ELSE m.res,
          c |-> nanocbor_leave_container(it, m.c)]
    ELSE [res |-> e.res, c |-> nanocbor_leave_container(it, e.c)]

_dec_frac_exponent(it, e) ==
    _dec_frac_mantissa(it, e, nanocbor_get_int32(e.c))

\* a the result of nanocbor_enter_array
_dec_frac_array(it, a) ==
    IF a.res = NANOCBOR_OK
    THEN _dec_frac_exponent(it, nanocbor_get_int32(a.c))
    ELSE [res |-> NANOCBOR_NOT_FOUND, c |-> it]

\* t the result of nanocbor_get_tag
_dec_frac_tag(t) ==
    IF t.res = NANOCBOR_OK /\ t.tag = W(NANOCBOR_TAG_DEC_FRAC)
    THEN _dec_frac_array(t.c, nanocbor_enter_array(t.c))
    ELSE [res |-> NANOCBOR_NOT_FOUND, c |-> t.c]

nanocbor_get_decimal_frac(c) == _dec_frac_tag(nanocbor_get_tag(c, UINT32_MAX))

_skip_simple(it) ==
    _get_and_advance_uint(it, _get_uint64(it, WZero, NANOCBOR_SIZE_LONG,
                                          nanocbor_get_type(it)))

\* return res < 0 ? res : NANOCBOR_OK, for a call that was the only
\* _skip_limited active
_skip_result(r) ==
    [res |-> IF r.res < 0 THEN r.res ELSE NANOCBOR_OK, c |-> r.c, depth |-> 1]

\* nanocbor_skip and its loop over the items of a container.  Besides the
\* result and the cursor afterwards, depth is the largest number of
\* _skip_limited calls that were active at once (this call included).
RECURSIVE _skip_limited(_, _), _skip_items(_, _)

\* the rest of the loop after an item was skipped with result r
_skip_next(r, limit) ==
    IF r.res < 0 THEN r
    ELSE [_skip_items(r.c, limit) EXCEPT
            !.depth = IF r.depth > @ THEN r.depth ELSE @]

\* while (!nanocbor_at_end(&recurse)) { ... }
_skip_items(recurse, limit) ==
    IF nanocbor_at_end(recurse)
    THEN [res |-> NANOCBOR_OK, c |-> recurse, depth |-> 0]
    ELSE _skip_next(_skip_limited(recurse, limit - 1), limit)

\* nanocbor_leave_container(it, &recurse) after the loop ended with l
_skip_leave(it, l) ==
    [res |-> IF l.res < 0 THEN l.res ELSE NANOCBOR_OK,
     c |-> nanocbor_leave_container(it, l.c), depth |-> 1 + l.depth]

\* e the result of nanocbor_enter_map or nanocbor_enter_array
_skip_container(it, limit, e) ==
    IF e.res = NANOCBOR_OK
    THEN _skip_leave(it, _skip_items(e.c, limit))
    ELSE _skip_result([res |-> e.res, c |-> it])

\* _skip_limited after its call of nanocbor_get_type
_skip_typed(it, limit, type) ==
    IF type = NANOCBOR_TYPE_BSTR \/ type = NANOCBOR_TYPE_TSTR
    THEN _skip_result(_get_str(it, type))
    ELSE IF type = NANOCBOR_TYPE_ARR \/ type = NANOCBOR_TYPE_MAP
    THEN _skip_container(it, limit,
                         IF type = NANOCBOR_TYPE_MAP
                         THEN nanocbor_enter_map(it)
                         ELSE nanocbor_enter_array(it))
    ELSE IF type >= 0
    THEN _skip_result(_skip_simple(it))
    ELSE _skip_result([res |-> type, c |-> it])

_skip_limited(it, limit) ==
    IF limit = 0
    THEN [res |-> NANOCBOR_ERR_RECURSION, c |-> it, depth |-> 1]
    ELSE _skip_typed(it, limit, nanocbor_get_type(it))

nanocbor_skip(it) == _skip_limited(it, NANOCBOR_RECURSION_MAX)

\* nanocbor_get_subcbor after nanocbor_skip returned r: the result, the
\* cursor afterwards, *start and *len
_subcbor_span(it, r) ==
    [res |-> r.res, c |-> r.c, ptr |-> it.cur, len |-> W(r.c.cur - it.cur)]

nanocbor_get_subcbor(it) == _subcbor_span(it, nanocbor_skip(it))

\* s_len == len && !strncmp(key, s, len), key holding no NUL
_key_match(key, ptr, s_len) ==
    /\ s_len = W(Len(key))
    /\ \A i \in 1..Len(key) : Mem(ptr + i - 1) = key[i]

\* the loop of nanocbor_get_key_tstr: the result and *value
RECURSIVE _key_loop(_, _, _)

\* k the result of nanocbor_skip on the value of an entry
_key_skipped(key, k) ==
    IF k.res < 0 THEN [res |-> k.res, c |-> k.c]
    ELSE _key_loop(k.c, key, k.res)

\* s the result of nanocbor_get_tstr on the key of an entry
_key_compare(key, s) ==
    IF s.res < 0 THEN [res |-> s.res, c |-> s.c]
    ELSE IF _key_match(key, s.ptr, s.len)
    THEN [res |-> NANOCBOR_OK, c |-> s.c]
    ELSE _key_skipped(key, nanocbor_skip(s.c))

_key_loop(value, key, res) ==
    IF nanocbor_at_end(value) THEN [res |-> res, c |-> value]
    ELSE _key_compare(key, nanocbor_get_tstr(value))

nanocbor_get_key_tstr(start, key) == _key_loop(start, key, NANOCBOR_NOT_FOUND)

(***************************************************************************)
(* The inputs.                                                             *)
(***************************************************************************)
MaxLen == 2

MaxDepth == 3

Alphabet == {1, 97, 129, 159, 161, 193, 246, 255}

Fuzz == UNION {[1..n -> Alphabet] : n \in 0..MaxLen}

\* d arrays, each the only element of its parent, around inner
RECURSIVE Nest(_, _)

Nest(d, inner) == IF d = 0 THEN inner ELSE <<129>> \o Nest(d - 1, inner)

Corpus ==
    { <<24, 42>>, <<24>>, <<25, 1, 0>>, <<25, 1>>, <<26, 255, 255, 255, 255>>,
      <<27, 0, 0, 0, 0, 0, 0, 0, 1>>, <<32>>, <<56, 128>>, <<56, 127>>,
      <<65, 1>>, <<65>>, <<98, 97>>, <<96>>, <<88, 2, 1, 2>>, <<88, 3, 1, 2>>,
      <<88, 100, 1, 2, 3>>, <<95, 65, 1, 255>>,
      <<245>>, <<244>>, <<249, 60, 0>>, <<248, 32>>,
      <<128>>, <<130, 1, 2>>, <<159, 1, 2, 255>>, <<128, 246>>, <<129, 128>>,
      <<159, 255, 246>>, <<128, 159, 255>>,
      <<161, 97, 97, 1>>, <<191, 97, 97, 1, 255>>, <<162, 97, 97, 1, 97, 98, 2>>,
      <<160>>, <<161, 1, 2>>, <<191, 97, 98, 1, 97, 97, 2, 255>>,
      <<161, 97, 98, 129, 1>>, <<161, 97, 98>>,
      <<196, 130, 32, 3>>, <<196, 130, 32>>, <<196, 130, 97, 97, 3>>,
      <<196, 1>>, <<196>>, <<196, 129, 1>>, <<196, 159, 32, 3, 255>>,
      <<196, 130, 26, 255, 255, 255, 255, 3>>,
      <<130, 193, 5, 7>>, <<130, 196, 130, 32, 3, 7>>,
      <<154, 255, 255, 255, 255, 1>>, <<186, 127, 255, 255, 255, 97, 97, 1>>,
      <<186, 128, 0, 0, 0>>, <<155, 0, 0, 0, 0, 0, 0, 0, 1, 5>>,
      <<130, 129, 95, 7>>,
      Nest(NANOCBOR_RECURSION_MAX - 1, <<1>>),
      Nest(NANOCBOR_RECURSION_MAX - 1, <<128>>),
      Nest(NANOCBOR_RECURSION_MAX, <<1>>),
      Nest(NANOCBOR_RECURSION_MAX, <<128>>),
      Nest(NANOCBOR_RECURSION_MAX + 1, <<1>>),
      <<130>> \o Nest(NANOCBOR_RECURSION_MAX, <<1>>) \o <<7>> }

Buffers == Fuzz \cup Corpus

\* the values an uninitialised uint32_t may hold (nanocbor_decoder_init
\* leaves remaining unset)
Indeterminate == {WZero, W(1), UINT32_MAX}

\* the bytes the memory past the end of the buffer may hold
OobBytes == {0, 97}

Keys == {<<97>>, <<98>>}

(***************************************************************************)
(* The decoder used through its interface: a stack of cursors, the         *)
(* top-level one at the bottom, each entered container above its parent;   *)
(* every operation acts on the innermost cursor.  last records the last    *)
(* call: its result, the cursor before and after, and its outputs.         *)
(***************************************************************************)
Top == stack[Len(stack)]

Called(op, pre, r, ptr, len, key) ==
    [op |-> op, res |-> r.res, pre |-> pre, post |-> r.c, ptr |-> ptr,
     len |-> len, key |-> key]

\* a reader: acts on the innermost cursor and leaves the result in last
Read(op, r) ==
    /\ calls = <<>>
    /\ stack' = [stack EXCEPT ![Len(stack)] = r.c]
    /\ last' = Called(op, Top, r, 0, WZero, <<>>)
    /\ UNCHANGED <<buf, calls, oob>>

Init ==
    /\ buf \in Buffers
    /\ oob \in OobBytes
    /\ \E r0 \in Indeterminate :
         /\ stack = <<nanocbor_decoder_init(Len(buf), r0)>>
         /\ last = Called("nanocbor_decoder_init", Top,
                          [res |-> NANOCBOR_OK, c |-> Top], 0, WZero, <<>>)
    /\ calls = <<>>

GetUint8 == Read("nanocbor_get_uint8", nanocbor_get_uint8(Top))

GetUint16 == Read("nanocbor_get_uint16", nanocbor_get_uint16(Top))

GetUint32 == Read("nanocbor_get_uint32", nanocbor_get_uint32(Top))

GetInt8 == Read("nanocbor_get_int8", nanocbor_get_int8(Top))

GetInt16 == Read("nanocbor_get_int16", nanocbor_get_int16(Top))

GetInt32 == Read("nanocbor_get_int32", nanocbor_get_int32(Top))

GetTag == Read("nanocbor_get_tag", nanocbor_get_tag(Top, WZero))

GetDecimalFrac == Read("nanocbor_get_decimal_frac", nanocbor_get_decimal_frac(Top))

GetNull == Read("nanocbor_get_null", nanocbor_get_null(Top))

GetBool == Read("nanocbor_get_bool", nanocbor_get_bool(Top))

Skip == Read("nanocbor_skip", nanocbor_skip(Top))

GetStr(op, r) ==
    /\ calls = <<>>
    /\ stack' = [stack EXCEPT ![Len(stack)] = r.c]
    /\ last' = Called(op, Top, r, r.ptr, r.len, <<>>)
    /\ UNCHANGED <<buf, calls, oob>>

GetBstr == GetStr("nanocbor_get_bstr", nanocbor_get_bstr(Top))

GetTstr == GetStr("nanocbor_get_tstr", nanocbor_get_tstr(Top))

GetSubcbor == GetStr("nanocbor_get_subcbor", nanocbor_get_subcbor(Top))

\* the parent stays as it is; a container entered with success is pushed
Enter(op, r) ==
    /\ calls = <<>>
    /\ Len(stack) < MaxDepth
    /\ stack' = IF r.res = NANOCBOR_OK THEN Append(stack, r.c) ELSE stack
    /\ last' = Called(op, Top, r, 0, WZero, <<>>)
    /\ UNCHANGED <<buf, calls, oob>>

EnterArray == Enter("nanocbor_enter_array", nanocbor_enter_array(Top))

EnterMap == Enter("nanocbor_enter_map", nanocbor_enter_map(Top))

LeaveContainer ==
    /\ calls = <<>>
    /\ Len(stack) > 1
    /\ last' = Called("nanocbor_leave_container", stack[Len(stack) - 1],
                      [res |-> NANOCBOR_OK,
                       c |-> nanocbor_leave_container(stack[Len(stack) - 1], Top)],
                      Top.cur, WZero, <<>>)
    /\ stack' = [SubSeq(stack, 1, Len(stack) - 1)
                   EXCEPT ![Len(stack) - 1] = last'.post]
    /\ UNCHANGED <<buf, calls, oob>>

\* start is left as it is; *value is last.post
GetKeyTstr ==
    /\ calls = <<>>
    /\ \E key \in Keys :
         last' = Called("nanocbor_get_key_tstr", Top,
                        nanocbor_get_key_tstr(Top, key), 0, WZero, key)
    /\ UNCHANGED <<buf, stack, calls, oob>>

Next ==
    \/ GetUint8 \/ GetUint16 \/ GetUint32
    \/ GetInt8 \/ GetInt16 \/ GetInt32
    \/ GetTag \/ GetDecimalFrac
    \/ GetBstr \/ GetTstr
    \/ GetNull \/ GetBool
    \/ EnterArray \/ EnterMap \/ LeaveContainer
    \/ Skip \/ GetSubcbor \/ GetKeyTstr

Spec == Init /\ [][Next]_vars

(***************************************************************************)
(* nanocbor_skip and nanocbor_get_key_tstr step by step.  calls is the     *)
(* call stack: one frame for each active _skip_limited, under them the     *)
(* frame of nanocbor_get_key_tstr when the skip is its own.  A frame holds *)
(* its limit, where it stands (pc), and res; the cursor the innermost      *)
(* frame works on (it, or its local recurse / value once it has one) is    *)
(* the innermost of stack.  For the loops a frame also counts the          *)
(* iterations begun (iters) and remembers end - cur at the start of the    *)
(* loop (span) and cur at the start of the iteration (cur0).               *)
(***************************************************************************)
Frame(fn, limit, pc, res, key, span) ==
    [fn |-> fn, limit |-> limit, pc |-> pc, res |-> res, key |-> key,
     iters |-> 0, span |-> span, cur0 |-> 0]

TopCall == calls[Len(calls)]

Pop(s) == SubSeq(s, 1, Len(s) - 1)

Span(c) == IF c.end > c.cur THEN c.end - c.cur ELSE 0

\* the innermost call returns r and leaves the cursors stk: its caller goes
\* on with r, or the call made through the interface is over
Return(r, stk) ==
    IF Len(calls) = 1
    THEN /\ calls' = <<>>
         /\ IF TopCall.fn = "key"
            THEN /\ stack' = Pop(stk)
                 /\ last' = Called("nanocbor_get_key_tstr", last.pre,
                                   [res |-> r, c |-> stk[Len(stk)]], 0, WZero,
                                   TopCall.key)
            ELSE /\ stack' = stk
                 /\ last' = Called("nanocbor_skip", last.pre,
                                   [res |-> r, c |-> stk[Len(stk)]], 0, WZero,
                                   <<>>)
    ELSE /\ calls' = [Pop(calls) EXCEPT ![Len(calls) - 1].pc = "ret",
                                        ![Len(calls) - 1].res = r]
         /\ stack' = stk
         /\ UNCHANGED last

\* a call begins its next iteration: it calls _skip_limited with limit
Iterate(limit, stk) ==
    /\ calls' = Append([calls EXCEPT ![Len(calls)].pc = "called",
                                     ![Len(calls)].iters = @ + 1,
                                     ![Len(calls)].cur0 = Top.cur],
                       Frame("skip", limit, "entry", NANOCBOR_OK, <<>>, 0))
    /\ stack' = stk
    /\ UNCHANGED last

\* nanocbor_skip(it) is called on the innermost cursor
SkipBegin ==
    /\ calls = <<>>
    /\ calls' = <<Frame("skip", NANOCBOR_RECURSION_MAX, "entry", NANOCBOR_OK,
                        <<>>, 0)>>
    /\ last' = Called("call", Top, [res |-> NANOCBOR_OK, c |-> Top], 0, WZero, <<>>)
    /\ UNCHANGED <<buf, stack, oob>>

\* _skip_limited on a string, a simple item or at the end: r its result
SkipLeaf(r) == Return(r.res, [stack EXCEPT ![Len(stack)] = r.c])

\* _skip_limited on an array or a map: e the result of entering it
SkipInto(e) ==
    IF e.res = NANOCBOR_OK
    THEN /\ calls' = [calls EXCEPT ![Len(calls)].pc = "loop",
                                   ![Len(calls)].span = Span(e.c)]
         /\ stack' = Append(stack, e.c)
         /\ UNCHANGED last
    ELSE Return(e.res, stack)

\* _skip_limited from its entry to its return or to the head of its loop
SkipEntry ==
    /\ calls # <<>>
    /\ TopCall.fn = "skip"
    /\ TopCall.pc = "entry"
    /\ IF TopCall.limit = 0 THEN Return(NANOCBOR_ERR_RECURSION, stack)
       ELSE IF nanocbor_get_type(Top) = NANOCBOR_TYPE_MAP
       THEN SkipInto(nanocbor_enter_map(Top))
       ELSE IF nanocbor_get_type(Top) = NANOCBOR_TYPE_ARR
       THEN SkipInto(nanocbor_enter_array(Top))
       ELSE SkipLeaf(_skip_typed(Top, TopCall.limit, nanocbor_get_type(Top)))
    /\ UNCHANGED <<buf, oob>>

\* nanocbor_leave_container(it, &recurse); return res < 0 ? res : NANOCBOR_OK
SkipLeave(res) ==
    Return(IF res < 0 THEN res ELSE NANOCBOR_OK,
           [Pop(stack) EXCEPT ![Len(stack) - 1] =
               nanocbor_leave_container(stack[Len(stack) - 1], Top)])

\* the head of the loop of _skip_limited; dec is what the limit is lowered
\* by for the items
SkipLoopBy(dec) ==
    /\ calls # <<>>
    /\ TopCall.fn = "skip"
    /\ TopCall.pc = "loop"
    /\ IF nanocbor_at_end(Top) THEN SkipLeave(TopCall.res)
       ELSE Iterate(TopCall.limit - dec, stack)
    /\ UNCHANGED <<buf, oob>>

\* the loop as it would be if it passed its own limit on
SkipLoopSameLimit == SkipLoopBy(0)

SkipLoop == SkipLoopBy(1)

\* the call made in the loop has returned: if (res < 0) break
SkipRet ==
    /\ calls # <<>>
    /\ TopCall.fn = "skip"
    /\ TopCall.pc = "ret"
    /\ IF TopCall.res < 0 THEN SkipLeave(TopCall.res)
       ELSE /\ calls' = [calls EXCEPT ![Len(calls)].pc = "loop"]
            /\ UNCHANGED <<stack, last>>
    /\ UNCHANGED <<buf, oob>>

\* nanocbor_get_key_tstr(start, key, value) is called on the innermost
\* cursor: *value = *start
KeyBegin ==
    /\ calls = <<>>
    /\ \E key \in Keys :
         calls' = <<Frame("key", 0, "loop", NANOCBOR_NOT_FOUND, key, Span(Top))>>
    /\ stack' = Append(stack, Top)
    /\ last' = Called("call", Top, [res |-> NANOCBOR_OK, c |-> Top], 0, WZero, <<>>)
    /\ UNCHANGED <<buf, oob>>

\* the key of an entry was read with result s
KeyCompare(s) ==
    IF s.res < 0 THEN Return(s.res, stack)
    ELSE IF _key_match(TopCall.key, s.ptr, s.len)
    THEN Return(NANOCBOR_OK, [stack EXCEPT ![Len(stack)] = s.c])
    ELSE Iterate(NANOCBOR_RECURSION_MAX, [stack EXCEPT ![Len(stack)] = s.c])

\* the head of the loop of nanocbor_get_key_tstr, up to its call of
\* nanocbor_skip
KeyLoop ==
    /\ calls # <<>>
    /\ TopCall.fn = "key"
    /\ TopCall.pc = "loop"
    /\ IF nanocbor_at_end(Top) THEN Return(TopCall.res, stack)
       ELSE KeyCompare(nanocbor_get_tstr(Top))
    /\ UNCHANGED <<buf, oob>>

\* nanocbor_skip has returned: if ((res = nanocbor_skip(value)) < 0) break
KeyRet ==
    /\ calls # <<>>
    /\ TopCall.fn = "key"
    /\ TopCall.pc = "ret"
    /\ IF TopCall.res < 0 THEN Return(TopCall.res, stack)
       ELSE /\ calls' = [calls EXCEPT ![Len(calls)].pc = "loop"]
            /\ UNCHANGED <<stack, last>>
    /\ UNCHANGED <<buf, oob>>

SkipNext ==
    \/ EnterArray \/ EnterMap
    \/ SkipBegin \/ SkipEntry \/ SkipLoop \/ SkipRet
    \/ KeyBegin \/ KeyLoop \/ KeyRet

\* the code runs on until it returns
SkipSpec == Init /\ [][SkipNext]_vars /\ WF_vars(SkipNext)

\* the steps arrive at what nanocbor_skip and nanocbor_get_key_tstr return
StepsAgree ==
    /\ (calls = <<>> /\ last.op = "nanocbor_skip")
       => /\ last.res = nanocbor_skip(last.pre).res
          /\ last.post = nanocbor_skip(last.pre).c
    /\ (calls = <<>> /\ last.op = "nanocbor_get_key_tstr")
       => /\ last.res = nanocbor_get_key_tstr(last.pre, last.key).res
          /\ last.post = nanocbor_get_key_tstr(last.pre, last.key).c

(***************************************************************************)
(* Well-formed items, read off the format alone (RFC 8949; sections 3 and  *)
(* 6 of the specification), independently of the decoder.                  *)
(***************************************************************************)
MajorAt(p) == buf[p + 1] \div 32

InfoAt(p) == buf[p + 1] % 32

\* header bytes of the item at p: the initial byte and its trailing bytes
HeadLen(p) == IF InfoAt(p) \in 24..27 THEN 1 + 2 ^ (InfoAt(p) - 24) ELSE 1

\* the argument of a header that lies inside the buffer
HeadArg(p) ==
    IF InfoAt(p) < 24 THEN W(InfoAt(p))
    ELSE WFromBytes(SubSeq(buf, p + 2, p + HeadLen(p)))

IsSmall(w) == w[1] = 0 /\ w[2] = 0 /\ w[3] = 0 /\ w[4] < 32768

\* WfEnd(p, d, ind): the offset after the well-formed item that starts at
\* p, lies inside the buffer and nests containers at most d deep (with
\* indefinite-length strings counted as items only if ind); -1 if there is
\* none
RECURSIVE WfEnd(_, _, _), WfSeq(_, _, _, _), WfBreak(_, _, _, _), WfChunks(_, _)

\* n items in a row
WfSeq(p, n, d, ind) ==
    IF n = 0 THEN p
    ELSE LET e == WfEnd(p, d, ind)
         IN  IF e < 0 THEN -1 ELSE WfSeq(e, n - 1, d, ind)

\* items up to a break; step is 1 in an array and 2 in a map
WfBreak(p, step, d, ind) ==
    IF p >= Len(buf) THEN -1
    ELSE IF buf[p + 1] = 255 THEN p + 1
    ELSE LET e == WfSeq(p, step, d, ind)
         IN  IF e < 0 THEN -1 ELSE WfBreak(e, step, d, ind)

\* definite chunks of major type mt up to a break
WfChunks(p, mt) ==
    IF p >= Len(buf) THEN -1
    ELSE IF buf[p + 1] = 255 THEN p + 1
    ELSE IF MajorAt(p) # mt \/ InfoAt(p) > 27 THEN -1
    ELSE LET e == WfEnd(p, 0, FALSE) IN IF e < 0 THEN -1 ELSE WfChunks(e, mt)

WfEnd(p, d, ind) ==
    IF p >= Len(buf) \/ InfoAt(p) \in 28..30 THEN -1
    ELSE IF InfoAt(p) = 31
    THEN IF MajorAt(p) \in {2, 3} /\ ind THEN WfChunks(p + 1, MajorAt(p))
         ELSE IF MajorAt(p) \in {4, 5} /\ d > 0
         THEN WfBreak(p + 1, MajorAt(p) - 3, d - 1, ind)
         ELSE -1
    ELSE IF p + HeadLen(p) > Len(buf) THEN -1
    ELSE LET mt == MajorAt(p)
             h  == p + HeadLen(p)
             v  == HeadArg(p)
         IN  IF mt \in {0, 1} THEN h
             ELSE IF mt \in {2, 3}
             THEN IF IsSmall(v) /\ h + v[4] <= Len(buf) THEN h + v[4] ELSE -1
             ELSE IF mt \in {4, 5}
             THEN IF IsSmall(v) /\ d > 0 /\ v[4] <= Len(buf)
                  THEN WfSeq(h, (mt - 3) * v[4], d - 1, ind) ELSE -1
             ELSE IF mt = 6 THEN WfEnd(h, d, ind)
             ELSE IF InfoAt(p) = 24 /\ buf[p + 2] < 32 THEN -1 ELSE h

\* the end of the well-formed item at p, of any kind and depth
ItemEnd(p) == WfEnd(p, Len(buf), TRUE)

\* the number of whole items between p and q, -1 if q is not where an item
\* of the sequence that starts at p ends
RECURSIVE ItemsTo(_, _)

ItemsTo(p, q) ==
    IF p = q THEN 0
    ELSE IF p > q \/ ItemEnd(p) < 0 THEN -1
    ELSE LET k == ItemsTo(ItemEnd(p), q) IN IF k < 0 THEN -1 ELSE k + 1

\* where the content of the well-formed container at p starts and ends
ContentStart(p) == IF InfoAt(p) = 31 THEN p + 1 ELSE p + HeadLen(p)

ContentEnd(p) ==
    IF InfoAt(p) = 31 THEN ItemEnd(p) - 1 ELSE ItemEnd(p)

(***************************************************************************)
(* The claims about the interface (under Spec).                            *)
(***************************************************************************)
ScalarReaders ==
    {"nanocbor_get_uint8", "nanocbor_get_uint16", "nanocbor_get_uint32",
     "nanocbor_get_int8", "nanocbor_get_int16", "nanocbor_get_int32"}

StringReaders == {"nanocbor_get_bstr", "nanocbor_get_tstr"}

Enters == {"nanocbor_enter_array", "nanocbor_enter_map"}

\* C1: after every operation every cursor, the top-level one and every
\* entered child (and the *value of a key lookup), has cur <= end.
C1_CurWithinEnd ==
    /\ \A i \in 1..Len(stack) : stack[i].cur <= stack[i].end
    /\ last.post.cur <= last.post.end

\* C2: a read operation that returns a negative error code leaves the
\* caller's cursor as it was: the same cur, the same remaining.
C2_FailureLeavesCursor ==
    ( /\ last.op \in ScalarReaders \cup StringReaders \cup
            {"nanocbor_get_tag", "nanocbor_get_null", "nanocbor_get_bool",
             "nanocbor_get_decimal_frac", "nanocbor_skip", "nanocbor_get_subcbor"}
      /\ last.res < 0 )
    => /\ last.post.cur = last.pre.cur
       /\ last.post.remaining = last.pre.remaining

\* every key of the entries from p on is a definite text string other than
\* key; n entries, or (n = -1) the entries up to the break
RECURSIVE NoKeyIs(_, _, _)

NoKeyIs(p, n, key) ==
    IF n = 0 \/ (n < 0 /\ buf[p + 1] = 255) THEN TRUE
    ELSE /\ MajorAt(p) = NANOCBOR_TYPE_TSTR
         /\ InfoAt(p) # 31
         /\ SubSeq(buf, p + HeadLen(p) + 1, ItemEnd(p)) # key
         /\ NoKeyIs(ItemEnd(ItemEnd(p)), IF n < 0 THEN n ELSE n - 1, key)

\* the innermost cursor stands at the start of the contents of a well-formed
\* map (the one its parent stands at), none of whose keys is key
AtMapWithoutKey(key) ==
    /\ Len(stack) >= 2
    /\ LET p == stack[Len(stack) - 1].cur IN
       /\ ItemEnd(p) >= 0
       /\ MajorAt(p) = NANOCBOR_TYPE_MAP
       /\ Top.cur = ContentStart(p)
       /\ nanocbor_in_container(Top)
       /\ NoKeyIs(ContentStart(p),
                  IF InfoAt(p) = 31 THEN -1 ELSE HeadArg(p)[4], key)

\* C3: a lookup of a key that no entry of a well-formed, text-keyed map has
\* returns NANOCBOR_NOT_FOUND.
C3_MissIsNotFound ==
    (last.op = "nanocbor_get_key_tstr" /\ last.pre = Top /\ AtMapWithoutKey(last.key))
    => last.res = NANOCBOR_NOT_FOUND

\* the widest header the reader op accepts
MaxWidth(op) ==
    IF op \in {"nanocbor_get_uint8", "nanocbor_get_int8"} THEN NANOCBOR_SIZE_BYTE
    ELSE IF op \in {"nanocbor_get_uint16", "nanocbor_get_int16"}
    THEN NANOCBOR_SIZE_SHORT
    ELSE IF op \in StringReaders THEN NANOCBOR_SIZE_SIZET
    ELSE NANOCBOR_SIZE_WORD

\* the major types the reader op accepts
TypesOf(op) ==
    IF op \in {"nanocbor_get_uint8", "nanocbor_get_uint16", "nanocbor_get_uint32"}
    THEN {NANOCBOR_TYPE_UINT}
    ELSE IF op \in ScalarReaders THEN {NANOCBOR_TYPE_UINT, NANOCBOR_TYPE_NINT}
    ELSE IF op = "nanocbor_get_tag" THEN {NANOCBOR_TYPE_TAG}
    ELSE IF op = "nanocbor_get_bstr" THEN {NANOCBOR_TYPE_BSTR}
    ELSE {NANOCBOR_TYPE_TSTR}

\* the item at c has a type and a width op accepts, and its header declares
\* more trailing or content bytes than lie before end
Truncated(op, c) ==
    /\ c.cur < c.end
    /\ MajorAt(c.cur) \in TypesOf(op)
    /\ InfoAt(c.cur) <= MaxWidth(op)
    /\ \/ HeadLen(c.cur) > c.end - c.cur
       \/ /\ op \in StringReaders
          /\ WLt(W(c.end - c.cur - HeadLen(c.cur)), HeadArg(c.cur))

\* C4: a scalar, tag or string reader on an item of the right type and
\* width that is cut short by end returns NANOCBOR_ERR_END, and a string
\* reader never returns a view that covers a byte at or beyond end.
C4_TruncatedIsEnd ==
    /\ ( /\ last.op \in ScalarReaders \cup StringReaders \cup {"nanocbor_get_tag"}
         /\ Truncated(last.op, last.pre) )
       => last.res = NANOCBOR_ERR_END
    /\ (last.op \in StringReaders /\ last.res = NANOCBOR_OK)
       => /\ IsSmall(last.len)
          /\ last.ptr + last.len[4] <= last.pre.end

\* the end of the item at p when it is one nanocbor_skip is claimed to skip:
\* well-formed, inside the buffer, without indefinite-length strings, nested
\* no deeper than the recursion limit
SkippableEnd(p) == WfEnd(p, NANOCBOR_RECURSION_MAX, FALSE)

\* C5: on a well-formed item inside the buffer that nests no deeper than the
\* recursion limit, nanocbor_skip returns NANOCBOR_OK and leaves cur right
\* after the item; nanocbor_get_subcbor reports its start and its length.
C5_SkipsOneItem ==
    ( /\ last.op \in {"nanocbor_skip", "nanocbor_get_subcbor"}
      /\ ~nanocbor_at_end(last.pre)
      /\ SkippableEnd(last.pre.cur) >= 0 )
    => /\ last.res = NANOCBOR_OK
       /\ last.post.cur = SkippableEnd(last.pre.cur)
       /\ last.op = "nanocbor_get_subcbor"
          => /\ last.ptr = last.pre.cur
             /\ last.len = W(SkippableEnd(last.pre.cur)
                             - last.pre.cur)

\* the items the well-formed container at p holds
ItemsIn(p) == ItemsTo(ContentStart(p), ContentEnd(p))

\* C7: in a well-formed container of n items, nanocbor_at_end of the child
\* is false after fewer than n items were read and true after n; leaving
\* then puts the parent right after the container and lowers a nonzero
\* remaining of the parent by one.
C7_ContainerWalk ==
    /\ ( /\ Len(stack) >= 2
         /\ ItemEnd(stack[Len(stack) - 1].cur) >= 0
         /\ MajorAt(stack[Len(stack) - 1].cur) \in {NANOCBOR_TYPE_ARR, NANOCBOR_TYPE_MAP}
         /\ ItemsTo(ContentStart(stack[Len(stack) - 1].cur), Top.cur) >= 0 )
       => /\ ItemsTo(ContentStart(stack[Len(stack) - 1].cur), Top.cur)
               < ItemsIn(stack[Len(stack) - 1].cur)
             => ~nanocbor_at_end(Top)
          /\ ItemsTo(ContentStart(stack[Len(stack) - 1].cur), Top.cur)
               = ItemsIn(stack[Len(stack) - 1].cur)
             => nanocbor_at_end(Top)
    /\ ( /\ last.op = "nanocbor_leave_container"
         /\ ItemEnd(last.pre.cur) >= 0
         /\ MajorAt(last.pre.cur) \in {NANOCBOR_TYPE_ARR, NANOCBOR_TYPE_MAP}
         /\ last.ptr = ContentEnd(last.pre.cur) )
       => /\ last.post.cur = ItemEnd(last.pre.cur)
          /\ last.post.remaining = IF last.pre.remaining = WZero THEN WZero
                                   ELSE U32Dec(last.pre.remaining)

\* C8: on a cursor that nanocbor_at_end holds of, every read and every
\* enter fails with NANOCBOR_ERR_END and consumes nothing.
C8_AtEndReadsFail ==
    ( /\ last.op \in ScalarReaders \cup StringReaders \cup Enters \cup
            {"nanocbor_get_tag", "nanocbor_get_null", "nanocbor_get_bool",
             "nanocbor_skip"}
      /\ nanocbor_at_end(last.pre) )
    => /\ last.res = NANOCBOR_ERR_END
       /\ last.op \notin Enters => last.post = last.pre

\* C10: nanocbor_get_decimal_frac returns NANOCBOR_NOT_FOUND only when the
\* item is a tag other than the decimal fraction tag; a failure to read the
\* tag, to enter the array or to read the exponent or the mantissa returns
\* that failure's error code.
C10_StructuralErrorReturned ==
    last.op = "nanocbor_get_decimal_frac"
    => LET t == nanocbor_get_tag(last.pre, UINT32_MAX)
           a == nanocbor_enter_array(t.c)
           e == nanocbor_get_int32(a.c)
           m == nanocbor_get_int32(e.c)
       IN  /\ last.res = NANOCBOR_NOT_FOUND
              => (t.res = NANOCBOR_OK /\ t.tag # W(NANOCBOR_TAG_DEC_FRAC))
           /\ t.res < 0 => last.res = t.res
           /\ (t.res = NANOCBOR_OK /\ t.tag = W(NANOCBOR_TAG_DEC_FRAC))
              => /\ a.res < 0 => last.res = a.res
                 /\ (a.res = NANOCBOR_OK /\ e.res < 0) => last.res = e.res
                 /\ (a.res = NANOCBOR_OK /\ e.res >= 0 /\ m.res < 0)
                    => last.res = m.res

\* the _skip_limited calls that are active
SkipCalls == Cardinality({k \in DOMAIN calls : calls[k].fn = "skip"})

\* arrays nested d deep, each the only element of its parent, around the
\* innermost array inner
Nested(d, inner) == Nest(d - 1, inner)

\* nanocbor_skip has returned from skipping the whole of the buffer b
Skipped(b) ==
    /\ calls = <<>>
    /\ last.op = "nanocbor_skip"
    /\ buf = b
    /\ last.pre.cur = 0
    /\ ~nanocbor_in_container(last.pre)

\* C6: over arrays nested d deep, nanocbor_skip returns NANOCBOR_OK when
\* d = NANOCBOR_RECURSION_MAX and the innermost array is empty, or when
\* d = NANOCBOR_RECURSION_MAX - 1 and it holds a scalar; it returns
\* NANOCBOR_ERR_RECURSION when d = NANOCBOR_RECURSION_MAX and the innermost
\* array holds a scalar, and when d = NANOCBOR_RECURSION_MAX + 1.  At most
\* NANOCBOR_RECURSION_MAX + 1 calls of _skip_limited are active at once.
C6_RecursionBoundary ==
    /\ SkipCalls <= NANOCBOR_RECURSION_MAX + 1
    /\ \A b \in {Nested(NANOCBOR_RECURSION_MAX, <<128>>),
                 Nested(NANOCBOR_RECURSION_MAX - 1, <<129, 1>>)} :
         Skipped(b) => last.res = NANOCBOR_OK
    /\ \A b \in {Nested(NANOCBOR_RECURSION_MAX, <<129, 1>>),
                 Nested(NANOCBOR_RECURSION_MAX + 1, <<128>>),
                 Nested(NANOCBOR_RECURSION_MAX + 1, <<129, 1>>)} :
         Skipped(b) => last.res = NANOCBOR_ERR_RECURSION

C6_SkippedAtLimit ==
    /\ Skipped(Nested(NANOCBOR_RECURSION_MAX, <<128>>))
    /\ last.res = NANOCBOR_OK

\* C6 as the claim states it: NANOCBOR_OK at depth NANOCBOR_RECURSION_MAX
\* whether the innermost array is empty or holds a scalar,
\* NANOCBOR_ERR_RECURSION at depth NANOCBOR_RECURSION_MAX + 1, and never
\* more than NANOCBOR_RECURSION_MAX active calls of _skip_limited.
C6_AsClaimed ==
    /\ SkipCalls <= NANOCBOR_RECURSION_MAX
    /\ \A b \in {Nested(NANOCBOR_RECURSION_MAX, <<128>>),
                 Nested(NANOCBOR_RECURSION_MAX, <<129, 1>>)} :
         Skipped(b) => last.res = NANOCBOR_OK
    /\ \A b \in {Nested(NANOCBOR_RECURSION_MAX + 1, <<128>>),
                 Nested(NANOCBOR_RECURSION_MAX + 1, <<129, 1>>)} :
         Skipped(b) => last.res = NANOCBOR_ERR_RECURSION

\* C9: nanocbor_skip and nanocbor_get_key_tstr return, whatever the buffer
\* holds and wherever the cursor stands: an iteration of their loops that
\* does not end the loop with an error leaves cur greater than it found
\* it, no loop begins more iterations than end - cur was when it started,
\* and every call made is followed by its return.
C9_LoopsTerminate ==
    /\ [](\A k \in DOMAIN calls : calls[k].iters <= calls[k].span)
    /\ []((calls # <<>> /\ TopCall.pc = "ret" /\ TopCall.res >= 0)
          => Top.cur > TopCall.cur0)
    /\ (calls # <<>>) ~> (calls = <<>>)

C9_HugeCountSkipped ==
    /\ Skipped(<<154, 255, 255, 255, 255, 1>>)
    /\ last.res = NANOCBOR_OK
    /\ last.post.cur = 6

=============================================================================
